---- MODULE Spec2Model ----
(***************************************************************************)
(* The bytecode virtual machine of luna (src/src/VirtualMachine.cpp): the  *)
(* dispatch loop of VirtualMachine::Run and one action per opcode handler, *)
(* over the operand stack, the scope-table stack (nest_tables_), the call  *)
(* stack and the heap of tables and closures.                              *)
(*                                                                         *)
(* Build: the CMakeLists sets no NDEBUG, so a failing assert() aborts the  *)
(* process (status "assert").  A thrown RuntimeError leaves Run (status    *)
(* "throw").  A memory-unsafe step (a null or wild pointer dereferenced,   *)
(* a slot outside the stack, back() of an empty vector) has no defined     *)
(* outcome at all: the run is cut there (status "undefined") and nothing   *)
(* is claimed of what follows.  A read of the inactive member of a slot's  *)
(* union that stays inside the stack yields a nondeterministic value.      *)
(***************************************************************************)
EXTENDS Integers, Sequences, FiniteSets, TLC

\* ------------------------------------------------------------ bounds
\* Number of freely chosen instructions at the end of a free bootstrap.
MaxIns == 4
\* Largest counter a freely chosen Push Counter carries.
MaxCounter == 2
\* Largest RHS run and number of keys of the multiple-assignment bootstraps.
MaxAssign == 3

\* ------------------------------------------------------------ values
TYPE_NIL == "nil"
TYPE_NUMBER == "number"
TYPE_STRING == "string"
TYPE_TABLE == "table"
TYPE_FUNCTION == "function"
TYPE_NATIVE_FUNCTION == "native_function"

Nil == [type |-> TYPE_NIL, id |-> 0, name |-> ""]
\* The null pointer (callee of the AddGlobalTable record, a missing upvalue table).
Null == [type |-> "null", id |-> 0, name |-> ""]
\* The bits of a counter read through the union as a Value pointer.
WildPtr == [type |-> "wild", id |-> 0, name |-> ""]
Number(n) == [type |-> TYPE_NUMBER, id |-> n, name |-> ""]
String(s) == [type |-> TYPE_STRING, id |-> 0, name |-> s]
TableV(t) == [type |-> TYPE_TABLE, id |-> t, name |-> ""]
\* A compiled Function (the parameter of GenerateClosure), known by its name.
FunctionV(f) == [type |-> TYPE_FUNCTION, id |-> 0, name |-> f]
\* A Closure object: index into closures.
ClosureV(c) == [type |-> TYPE_FUNCTION, id |-> c, name |-> ""]
\* A native function that pushes r results and their counter.
NativeV(r) == [type |-> TYPE_NATIVE_FUNCTION, id |-> r, name |-> ""]

IsPointer(v) == v.type \notin {"null", "wild"}

\* ------------------------------------------------------------ tables
EmptyTable == [k \in {} |-> Nil]
HaveKey(t, k) == k \in DOMAIN t
GetValue(t, k) == IF k \in DOMAIN t THEN t[k] ELSE Nil
TableAssign(t, k, v) == [x \in (DOMAIN t) \cup {k} |-> IF x = k THEN v ELSE t[x]]

\* ------------------------------------------------------------ stack slots
StackValueType_Value == "Value"
StackValueType_Counter == "Counter"

ValueSlot(v) == [type |-> StackValueType_Value, value |-> v, current |-> 0, total |-> 0]
CounterSlot(t, c) == [type |-> StackValueType_Counter, value |-> Null, current |-> c, total |-> t]

\* Stack::Push(value), Stack::Push(total, current), Stack::Pop(n).
Push(s, v) == Append(s, ValueSlot(v))
PushCounter(s, t, c) == Append(s, CounterSlot(t, c))
Pop(s, n) == SubSeq(s, 1, Len(s) - n)
\* Stack::GetStackValue(i) for i < 0: the -i-th slot from the top, as a position.
Pos(s, i) == Len(s) + 1 + i
InStack(s, i) == Pos(s, i) >= 1 /\ Pos(s, i) <= Len(s)
GetStackValue(s, i) == s[Pos(s, i)]
Top(s) == s[Len(s)]
\* slot->param.value: the Value pointer, or the counter's bits read as one.
ParamValue(slot) == IF slot.type = StackValueType_Value THEN slot.value ELSE WildPtr

\* ------------------------------------------------------------ instructions
OpCode_Assign == "Assign"
OpCode_CleanStack == "CleanStack"
OpCode_GetLocalTable == "GetLocalTable"
OpCode_GetTable == "GetTable"
OpCode_GetTableValue == "GetTableValue"
OpCode_Push == "Push"
OpCode_GenerateClosure == "GenerateClosure"
OpCode_Ret == "Ret"
OpCode_GenerateArgTable == "GenerateArgTable"
OpCode_MergeCounter == "MergeCounter"
OpCode_ResetCounter == "ResetCounter"
OpCode_DuplicateCounter == "DuplicateCounter"
OpCode_Call == "Call"
OpCode_AddLocalTable == "AddLocalTable"
OpCode_DelLocalTable == "DelLocalTable"
OpCode_AddGlobalTable == "AddGlobalTable"
OpCode_DelGlobalTable == "DelGlobalTable"

InstructionParamType_Name == "Name"
InstructionParamType_Value == "Value"
InstructionParamType_Counter == "Counter"
InstructionParamType_CounterIndex == "CounterIndex"

\* An Instruction {op_code, param_a}; param_a is {type, value | counter}.
Ins(op) == [op_code |-> op, type |-> "", value |-> Null, counter |-> 0]
InsName(op, k) == [op_code |-> op, type |-> InstructionParamType_Name, value |-> k, counter |-> 0]
InsValue(op, v) == [op_code |-> op, type |-> InstructionParamType_Value, value |-> v, counter |-> 0]
InsCounter(op, n) == [op_code |-> op, type |-> InstructionParamType_Counter, value |-> Null, counter |-> n]
InsIndex(op, n) == [op_code |-> op, type |-> InstructionParamType_CounterIndex, value |-> Null, counter |-> n]

\* ------------------------------------------------------------ programs
NameX == String("x")
NameN == String("n")
NameF == String("f")
NameArg == String("arg")

\* An instruction array (Bootstrap::GetInstructions, Function instructions),
\* known by [name, n, k]; n and k are the sizes of a parametrised bootstrap.
Prog(name) == [name |-> name, n |-> 0, k |-> 0]
ProgNK(name, n, k) == [name |-> name, n |-> n, k |-> k]
\* A bootstrap that ends in MaxIns instructions chosen one by one as Run fetches
\* them, after the fixed instructions FreePrefix(i).
FreeBoot(i) == ProgNK("boot", i, 0)
\* native_func_ret_: the one-instruction bootstrap built by the constructor.
native_func_ret_ == Prog("native_func_ret")

\* x = v compiled for the layout Assign reads: value, counter, table, counter, key.
AssignTo(k, v) ==
    << InsValue(OpCode_Push, v), InsCounter(OpCode_Push, 1), Ins(OpCode_GetLocalTable),
       InsName(OpCode_Push, k), Ins(OpCode_Assign), Ins(OpCode_CleanStack) >>

KeyNames == << "a", "b", "c", "d", "e", "f" >>
KeyName(i) == String(KeyNames[i])
RECURSIVE PushNumbers(_)
PushNumbers(n) ==
    IF n = 0 THEN << >> ELSE Append(PushNumbers(n - 1), InsValue(OpCode_Push, Number(10 * n)))
\* The values 10(from+1), .., 10(from+n) pushed in this order.
RECURSIVE PushRun(_, _)
PushRun(from, n) ==
    IF n = 0 THEN << >>
    ELSE Append(PushRun(from, n - 1), InsValue(OpCode_Push, Number(10 * (from + n))))
\* A bootstrap over three runs of a, b and c values: [name, n = a, k = (b, c)].
Prog3(name, a, b, c) == ProgNK(name, a, b * (MaxCounter + 1) + c)
RunB(p) == p.k \div (MaxCounter + 1)
RunC(p) == p.k % (MaxCounter + 1)
RECURSIVE AssignKeys(_)
AssignKeys(k) ==
    IF k = 0 THEN << >>
    ELSE AssignKeys(k - 1) \o
         << Ins(OpCode_GetLocalTable), InsName(OpCode_Push, KeyName(k)), Ins(OpCode_Assign) >>

\* The compiled units of the model: the bodies of the script functions.
FunctionNames ==
    {"FnRet", "FnRead", "FnArgs", "FnOuter", "FnOuter0", "FnRec", "FnScopes", "FnShadow",
     "FnDel"}

UpvalueSet(f) ==
    CASE f = "FnRead" -> {NameN}
      [] f = "FnOuter" -> {NameN}
      [] f = "FnOuter0" -> {NameN}
      [] f = "FnRec" -> {NameF}
      [] OTHER -> {}

CallNoArgs == << InsCounter(OpCode_Push, 0), Ins(OpCode_Call) >>
ReadName(k) ==
    << InsName(OpCode_GetTable, k), InsName(OpCode_Push, k), InsIndex(OpCode_GetTableValue, 0) >>

GetInstructions(p) ==
    CASE p.name = "native_func_ret" -> << Ins(OpCode_Ret) >>
      \* ---- function bodies
      [] p.name = "FnRet" -> << Ins(OpCode_Ret) >>
      [] p.name = "FnRead" -> ReadName(NameN) \o << Ins(OpCode_Ret) >>
      [] p.name = "FnArgs" ->
            << Ins(OpCode_AddLocalTable), Ins(OpCode_GenerateArgTable), Ins(OpCode_Ret) >>
      [] p.name = "FnOuter" ->
            << Ins(OpCode_AddLocalTable) >> \o ReadName(NameN)
            \o << InsValue(OpCode_GenerateClosure, FunctionV("FnRead")) >>
            \o CallNoArgs \o << Ins(OpCode_Ret) >>
      [] p.name = "FnOuter0" ->
            << InsValue(OpCode_GenerateClosure, FunctionV("FnRead")) >>
            \o CallNoArgs \o << Ins(OpCode_Ret) >>
      [] p.name = "FnRec" -> ReadName(NameF) \o CallNoArgs \o << Ins(OpCode_Ret) >>
      \* x = 1 in one scope, x = 2 in a scope inside it, then x read.
      [] p.name = "FnShadow" ->
            << Ins(OpCode_AddLocalTable) >> \o AssignTo(NameX, Number(1))
            \o << Ins(OpCode_AddLocalTable) >> \o AssignTo(NameX, Number(2))
            \o ReadName(NameX) \o << Ins(OpCode_Ret) >>
      \* A body that deletes a scope it did not add.
      [] p.name = "FnDel" -> << Ins(OpCode_DelLocalTable), Ins(OpCode_Ret) >>
      [] p.name = "FnScopes" ->
            << Ins(OpCode_AddLocalTable), Ins(OpCode_AddLocalTable),
               Ins(OpCode_DelLocalTable), Ins(OpCode_Ret) >>
      \* ---- bootstraps
      \* S1 as the specification emits it: a counter on top of the key.
      [] p.name = "S1" ->
            << Ins(OpCode_AddGlobalTable), Ins(OpCode_AddLocalTable),
               InsValue(OpCode_Push, Number(1)), InsCounter(OpCode_Push, 1),
               Ins(OpCode_GetLocalTable), InsName(OpCode_Push, NameX),
               InsCounter(OpCode_Push, 1), Ins(OpCode_Assign), Ins(OpCode_CleanStack) >>
      \* S1 with the key as the top slot.
      [] p.name = "S1Key" ->
            << Ins(OpCode_AddGlobalTable), Ins(OpCode_AddLocalTable) >>
            \o AssignTo(NameX, Number(1))
      \* a1, .., ak = 10, .., 10n
      [] p.name = "MultiAssign" ->
            << Ins(OpCode_AddGlobalTable) >> \o PushNumbers(p.n)
            \o << InsCounter(OpCode_Push, p.n) >> \o AssignKeys(p.k)
            \o << Ins(OpCode_CleanStack) >>
      \* S4: n = 1; closure capturing n; n = 2; call the closure.
      [] p.name = "S4" ->
            << Ins(OpCode_AddGlobalTable) >> \o AssignTo(NameN, Number(1))
            \o << InsValue(OpCode_GenerateClosure, FunctionV("FnRead")) >>
            \o AssignTo(NameN, Number(2)) \o CallNoArgs
      \* As S4, the closure being one that opens a scope and creates and calls FnRead.
      [] p.name = "Nested" ->
            << Ins(OpCode_AddGlobalTable) >> \o AssignTo(NameN, Number(1))
            \o << InsValue(OpCode_GenerateClosure, FunctionV("FnOuter")) >>
            \o AssignTo(NameN, Number(2)) \o CallNoArgs
      [] p.name = "Nested0" ->
            << Ins(OpCode_AddGlobalTable) >> \o AssignTo(NameN, Number(1))
            \o << InsValue(OpCode_GenerateClosure, FunctionV("FnOuter0")) >>
            \o AssignTo(NameN, Number(2)) \o CallNoArgs
      [] p.name = "Underflow" ->
            << Ins(OpCode_AddGlobalTable),
               InsValue(OpCode_GenerateClosure, FunctionV("FnDel")) >> \o CallNoArgs
      \* Runs A, B, C: A merged with B, then the result with C.
      [] p.name = "MergeLeft" ->
            PushRun(0, p.n) \o << InsCounter(OpCode_Push, p.n) >>
            \o PushRun(p.n, RunB(p)) \o << InsCounter(OpCode_Push, RunB(p)) >>
            \o << Ins(OpCode_MergeCounter) >>
            \o PushRun(p.n + RunB(p), RunC(p)) \o << InsCounter(OpCode_Push, RunC(p)) >>
            \o << Ins(OpCode_MergeCounter) >>
      \* Runs A, B, C: B merged with C, then A with the result.
      [] p.name = "MergeRight" ->
            PushRun(0, p.n) \o << InsCounter(OpCode_Push, p.n) >>
            \o PushRun(p.n, RunB(p)) \o << InsCounter(OpCode_Push, RunB(p)) >>
            \o PushRun(p.n + RunB(p), RunC(p)) \o << InsCounter(OpCode_Push, RunC(p)) >>
            \o << Ins(OpCode_MergeCounter), Ins(OpCode_MergeCounter) >>
      \* S3: x = (5).y
      [] p.name = "S3" ->
            << Ins(OpCode_AddGlobalTable), InsValue(OpCode_Push, Number(5)),
               InsCounter(OpCode_Push, 1), InsName(OpCode_Push, String("y")),
               InsIndex(OpCode_GetTableValue, 0), Ins(OpCode_GetLocalTable),
               InsName(OpCode_Push, NameX), Ins(OpCode_Assign), Ins(OpCode_CleanStack) >>
      \* (5)()
      [] p.name = "CallNumber" ->
            << Ins(OpCode_AddGlobalTable), InsValue(OpCode_Push, Number(5)),
               InsCounter(OpCode_Push, 1) >> \o CallNoArgs \o << Ins(OpCode_CleanStack) >>
      \* S5: FnArgs called with the arguments 10, 20, 30.
      [] p.name = "S5" ->
            << Ins(OpCode_AddGlobalTable),
               InsValue(OpCode_GenerateClosure, FunctionV("FnArgs")) >>
            \o PushRun(0, 3) \o << InsCounter(OpCode_Push, 3), Ins(OpCode_Call) >>
      \* x = 7; then x indexed in the local table across the run 10, 20.
      [] p.name = "Chain" ->
            << Ins(OpCode_AddGlobalTable) >> \o AssignTo(NameX, Number(7))
            \o << Ins(OpCode_GetLocalTable) >> \o PushRun(0, 2)
            \o << InsCounter(OpCode_Push, 2), InsName(OpCode_Push, NameX),
                  InsIndex(OpCode_GetTableValue, 1) >>
      \* S6: a native called without arguments returns two values; x = the first.
      [] p.name = "S6" ->
            << Ins(OpCode_AddGlobalTable), InsValue(OpCode_Push, NativeV(2)),
               InsCounter(OpCode_Push, 1) >> \o CallNoArgs
            \o << Ins(OpCode_ResetCounter), Ins(OpCode_GetLocalTable),
                  InsName(OpCode_Push, NameX), Ins(OpCode_Assign), Ins(OpCode_CleanStack) >>
      \* n values and their counter, then ResetCounter twice.
      [] p.name = "ResetTwice" ->
            PushNumbers(p.n) \o << InsCounter(OpCode_Push, p.n),
                                   Ins(OpCode_ResetCounter), Ins(OpCode_ResetCounter) >>
      \* x = 7 in the global table, then FnShadow called.
      [] p.name = "Shadow" ->
            << Ins(OpCode_AddGlobalTable) >> \o AssignTo(NameX, Number(7))
            \o << InsValue(OpCode_GenerateClosure, FunctionV("FnShadow")) >> \o CallNoArgs
      \* f = closure of FnRet; f = closure of FnRec (calls the first);
      \* f = closure of FnRec (calls the second): FnRec active twice at once.
      [] p.name = "Recursive" ->
            << Ins(OpCode_AddGlobalTable),
               InsValue(OpCode_GenerateClosure, FunctionV("FnRet")),
               Ins(OpCode_GetLocalTable), InsName(OpCode_Push, NameF), Ins(OpCode_Assign),
               Ins(OpCode_CleanStack),
               InsValue(OpCode_GenerateClosure, FunctionV("FnRec")),
               Ins(OpCode_GetLocalTable), InsName(OpCode_Push, NameF), Ins(OpCode_Assign),
               Ins(OpCode_CleanStack),
               InsValue(OpCode_GenerateClosure, FunctionV("FnRec")) >>
            \o CallNoArgs \o << Ins(OpCode_DelGlobalTable) >>
      \* ---- the fixed instructions of the free bootstraps
      [] p.name = "boot" /\ p.n = 2 ->
            << Ins(OpCode_AddGlobalTable), InsValue(OpCode_Push, Number(1)),
               InsValue(OpCode_Push, Number(2)), InsCounter(OpCode_Push, 2) >>
      [] p.name = "boot" /\ p.n = 3 ->
            << Ins(OpCode_AddGlobalTable) >> \o AssignTo(NameN, Number(1))
            \o << InsValue(OpCode_GenerateClosure, FunctionV("FnRead")) >>
      [] p.name = "boot" /\ p.n = 4 ->
            << Ins(OpCode_AddGlobalTable), Ins(OpCode_AddLocalTable),
               InsValue(OpCode_GenerateClosure, FunctionV("FnScopes")),
               InsValue(OpCode_Push, Number(1)), InsCounter(OpCode_Push, 1) >>
      [] OTHER -> << >>

IsFree(p) == p.name = "boot"
GetInstructionCount(p) == Len(GetInstructions(p)) + (IF IsFree(p) THEN MaxIns ELSE 0)

\* The instructions a freely chosen bootstrap is made of.
FreeIns ==
    {InsName(OpCode_Push, k) : k \in {NameX, NameN}}
    \cup {InsValue(OpCode_Push, v) : v \in {Number(1), NativeV(1)}}
    \cup {InsCounter(OpCode_Push, c) : c \in 0..MaxCounter}
    \cup {InsName(OpCode_GetTable, k) : k \in {NameX, NameN}}
    \cup {InsIndex(OpCode_GetTableValue, c) : c \in 0..1}
    \cup {InsValue(OpCode_GenerateClosure, FunctionV(f)) : f \in {"FnRead", "FnScopes"}}
    \cup {Ins(op) : op \in {OpCode_Assign, OpCode_CleanStack, OpCode_GetLocalTable,
                            OpCode_Ret, OpCode_GenerateArgTable, OpCode_MergeCounter,
                            OpCode_ResetCounter, OpCode_DuplicateCounter, OpCode_Call,
                            OpCode_AddLocalTable, OpCode_DelLocalTable,
                            OpCode_AddGlobalTable, OpCode_DelGlobalTable}}

Bootstraps ==
    {FreeBoot(i) : i \in 1..4} \cup {Prog(s) : s \in {"S1", "S1Key", "S4", "Nested", "Nested0", "Shadow", "Recursive",
                                "Underflow", "S6", "S3", "CallNumber", "S5",
                                "Chain"}}
    \cup {ProgNK("MultiAssign", n, k) : n \in 0..MaxAssign, k \in 0..MaxAssign}
    \cup {ProgNK("ResetTwice", n, 0) : n \in 0..MaxAssign}
    \cup {Prog3(name, a, b, c) : name \in {"MergeLeft", "MergeRight"},
                                 a \in 0..MaxCounter, b \in 0..MaxCounter, c \in 0..MaxCounter}

\* ------------------------------------------------------------ state
VARIABLES
    stack_,        \* the operand stack: a sequence of slots, the top last
    nest_tables_,  \* the scope-table stack: table ids, the innermost last
    call_stack_,   \* the call stack: CallStackInfo records, the current last
    ins_base_,     \* the instruction array being run
    ins_count_,    \* its length
    ins_current_,  \* the index (from 0) of the instruction to dispatch
    tables,        \* the heap of tables: tables[id] maps keys to values
    closures,      \* the heap of closures: [func, upvalue_table (0: none)]
    status,        \* running | returned | assert | throw | undefined
    last_op,       \* the opcode dispatched last ("" before the first)
    shape,         \* history: whether every Push Counter and MergeCounter so far met a
                   \* well-shaped stack, every DelLocalTable and DelGlobalTable a
                   \* record that counts the table, every Call a call-stack record,
                   \* and every AddGlobalTable an empty call stack
    entry_depths   \* history: per call-stack record, the depths of nest_tables_ and
                   \* call_stack_ when it was pushed

vars == << stack_, nest_tables_, call_stack_, ins_base_, ins_count_, ins_current_,
           tables, closures, status, last_op, shape, entry_depths >>

\* state_->GetGlobalTable(): the table allocated with the State.
GlobalTable == 1

CallStackInfo(base, total, offset, callee) ==
    [caller_base |-> base, caller_total |-> total, caller_offset |-> offset,
     callee |-> callee, callee_tables |-> 0]

\* while (ins_current_ < ins_count_)
LoopStatus(current, count) == IF current < count THEN "running" ELSE "returned"

\* VirtualMachine(), Init(state) and the entry of Run(boot).
Init ==
    /\ stack_ = << >>
    /\ nest_tables_ = << >>
    /\ call_stack_ = << >>
    /\ ins_base_ \in Bootstraps
    /\ ins_count_ = GetInstructionCount(ins_base_)
    /\ ins_current_ = 0
    /\ tables = << EmptyTable >>
    /\ closures = << >>
    /\ status = LoopStatus(0, ins_count_)
    /\ last_op = ""
    /\ shape = [push |-> TRUE, merge |-> TRUE, scope |-> TRUE, call |-> TRUE,
                 global |-> TRUE]
    /\ entry_depths = << >>

\* Instruction *ins = &ins_base_[ins_current_]
Fetched ==
    IF IsFree(ins_base_) /\ ins_current_ >= Len(GetInstructions(ins_base_))
    THEN FreeIns
    ELSE {GetInstructions(ins_base_)[ins_current_ + 1]}
Dispatch(op) == {ins \in Fetched : ins.op_code = op}

\* The handler ends the run: a failed assert, a throw, or an undefined step.
Halt(st, op) ==
    /\ status' = st
    /\ last_op' = op
    /\ UNCHANGED << stack_, nest_tables_, call_stack_, ins_base_, ins_count_, ins_current_,
                    tables, closures, shape, entry_depths >>

\* Mutant of Advance: the instruction after the dispatched one skipped.
AdvanceSkip(op) ==
    /\ ins_current_' = ins_current_ + 2
    /\ status' = LoopStatus(ins_current_ + 2, ins_count_)
    /\ last_op' = op
    /\ UNCHANGED << ins_base_, ins_count_ >>

\* break; ++ins_current_; and the loop test.
Advance(op) ==
    /\ ins_current_' = ins_current_ + 1
    /\ status' = LoopStatus(ins_current_ + 1, ins_count_)
    /\ last_op' = op
    /\ UNCHANGED << ins_base_, ins_count_ >>

\* The history as a call-stack record is pushed, and as one is popped.
EnteredFrom(base, offset) ==
    Append(entry_depths, [nest |-> Len(nest_tables_), calls |-> Len(call_stack_),
                          base |-> base, offset |-> offset])
Entered == EnteredFrom(ins_base_, ins_current_)
Left == SubSeq(entry_depths, 1, Len(entry_depths) - 1)

\* A Table pointer as a Value: nest_tables_ holds a null pointer (0) once resize grew it.
TablePtr(t) == IF t = 0 THEN Null ELSE TableV(t)

\* ------------------------------------------------------------ handlers
\* Mutant of RhsIndex: the RHS run indexed from its top, right to left.
RhsIndexFromTop(counter) == -counter.current - 2

\* int index = counter->param.counter.current - counter->param.counter.total - 1
RhsIndex(counter) == counter.current - counter.total - 1

\* Mutant of RhsValue: Nil stored whatever the RHS run holds.
RhsValueNil(s) == Nil

\* The value Assign consumes from the RHS run under the counter on top of s.
RhsValue(s) ==
    IF Top(s).current < Top(s).total
    THEN ParamValue(GetStackValue(s, RhsIndex(Top(s))))
    ELSE Nil

\* VirtualMachine::Assign
Assign ==
    /\ status = "running"
    /\ Dispatch(OpCode_Assign) # {}
    /\ IF Len(stack_) = 0 THEN Halt("undefined", OpCode_Assign)
       ELSE IF Top(stack_).type # StackValueType_Value THEN Halt("assert", OpCode_Assign)
       ELSE IF Len(stack_) < 2 THEN Halt("undefined", OpCode_Assign)
       ELSE
         LET key == Top(stack_).value
             s1 == Pop(stack_, 2)       \* Pop the key and counter
         IN
         IF Len(s1) = 0 THEN Halt("undefined", OpCode_Assign)
         ELSE IF Top(s1).type # StackValueType_Value THEN Halt("assert", OpCode_Assign)
         ELSE
           LET table == Top(s1).value
               s2 == Pop(s1, 1)
           IN
           IF Len(s2) = 0 THEN Halt("undefined", OpCode_Assign)
           ELSE IF Top(s2).type # StackValueType_Counter THEN Halt("assert", OpCode_Assign)
           ELSE
             LET counter == Top(s2)
                 more == counter.current < counter.total
                 index == RhsIndex(counter)
             IN
             IF more /\ ~InStack(s2, index) THEN Halt("undefined", OpCode_Assign)
             ELSE
               LET value == RhsValue(s2)
                   s3 == IF more THEN [s2 EXCEPT ![Len(s2)].current = @ + 1] ELSE s2
               IN
               IF table.type # TYPE_TABLE \/ ~IsPointer(key)
               THEN Halt("undefined", OpCode_Assign)   \* static_cast<Table *> of no table
               ELSE IF key.type = TYPE_NIL
               THEN \* Table::Assign rejects a nil key
                    /\ stack_' = s3
                    /\ status' = "throw"
                    /\ last_op' = OpCode_Assign
                    /\ UNCHANGED << nest_tables_, call_stack_, ins_base_, ins_count_,
                                    ins_current_, tables, closures, shape, entry_depths >>
               ELSE /\ stack_' = s3
                    /\ tables' = [tables EXCEPT ![table.id] = TableAssign(@, key, value)]
                    /\ Advance(OpCode_Assign)
                    /\ UNCHANGED << nest_tables_, call_stack_, closures, shape, entry_depths >>

\* Mutant of PopValues: one value of the run left on the stack.
PopValuesButOne(s, total) == IF total > 0 THEN Pop(s, total - 1) ELSE s

\* Pop values bottom of the counter
PopValues(s, total) == IF total > 0 THEN Pop(s, total) ELSE s

\* VirtualMachine::CleanStack
CleanStack ==
    /\ status = "running"
    /\ Dispatch(OpCode_CleanStack) # {}
    /\ IF Len(stack_) = 0
       THEN \* Top() of an empty stack: null (the assert fails) or no slot at all
            \E st \in {"assert", "undefined"} : Halt(st, OpCode_CleanStack)
       ELSE IF Top(stack_).type # StackValueType_Counter THEN Halt("assert", OpCode_CleanStack)
       ELSE
         LET total == Top(stack_).total
             s1 == Pop(stack_, 1)       \* Pop the counter
         IN
         IF total > Len(s1) THEN Halt("undefined", OpCode_CleanStack)
         ELSE /\ stack_' = PopValues(s1, total)
              /\ Advance(OpCode_CleanStack)
              /\ UNCHANGED << nest_tables_, call_stack_, tables, closures, shape, entry_depths >>

\* VirtualMachine::GetLocalTable
GetLocalTable ==
    /\ status = "running"
    /\ Dispatch(OpCode_GetLocalTable) # {}
    /\ IF Len(nest_tables_) = 0 THEN Halt("undefined", OpCode_GetLocalTable)
       ELSE /\ stack_' = PushCounter(Push(stack_, TablePtr(nest_tables_[Len(nest_tables_)])), 1, 0)
            /\ Advance(OpCode_GetLocalTable)
            /\ UNCHANGED << nest_tables_, call_stack_, tables, closures, shape, entry_depths >>

\* Mutant of ScanTables: the number of entries left to visit never counted down.
RECURSIVE ScanTablesThrough(_, _, _)
ScanTablesThrough(key, i, n) ==
    IF n = 0 THEN 0
    ELSE IF i < 1 THEN 0
    ELSE IF nest_tables_[i] = 0 THEN -1
    ELSE IF HaveKey(tables[nest_tables_[i]], key) THEN nest_tables_[i]
    ELSE ScanTablesThrough(key, i - 1, n)

\* The loop of GetTable: from nest_tables_[i] down through n entries; the table
\* that has the key, 0 when none has it, -1 when the loop leaves the vector or
\* meets a null table.
RECURSIVE ScanTables(_, _, _)
ScanTables(key, i, n) ==
    IF n = 0 THEN 0
    ELSE IF i < 1 THEN -1
    ELSE IF nest_tables_[i] = 0 THEN -1
    ELSE IF HaveKey(tables[nest_tables_[i]], key) THEN nest_tables_[i]
    ELSE ScanTables(key, i - 1, n - 1)

\* Closure::GetUpvalueTable of the closure value cl, as a Value.
GetUpvalueTable(cl) == TablePtr(closures[cl.id].upvalue_table)

\* What GetTable(key) does in the current state: [st, value], the value pushed.
GetTableResult(key) ==
    IF Len(call_stack_) = 0 THEN [st |-> "undefined", value |-> Null]
    ELSE
      LET callee_tables == call_stack_[Len(call_stack_)].callee_tables
          t == ScanTables(key, Len(nest_tables_), callee_tables)
          callee == call_stack_[Len(call_stack_)].callee
      IN
      IF t = -1 THEN [st |-> "undefined", value |-> Null]
      ELSE IF t # 0 THEN [st |-> "ok", value |-> TableV(t)]
      \* If can not find in local tables, we use the upvalue table.
      ELSE IF callee = Null THEN [st |-> "undefined", value |-> Null]   \* callee->Type()
      ELSE IF callee.type # TYPE_FUNCTION THEN [st |-> "assert", value |-> Null]
      ELSE [st |-> "ok", value |-> GetUpvalueTable(callee)]

\* VirtualMachine::GetTable
GetTable ==
    /\ status = "running"
    /\ \E ins \in Dispatch(OpCode_GetTable) :
         LET r == GetTableResult(ins.value) IN
         IF ins.type # InstructionParamType_Name THEN Halt("assert", OpCode_GetTable)
         ELSE IF r.st # "ok" THEN Halt(r.st, OpCode_GetTable)
         ELSE /\ stack_' = PushCounter(Push(stack_, r.value), 1, 0)
              /\ Advance(OpCode_GetTable)
              /\ UNCHANGED << nest_tables_, call_stack_, tables, closures, shape, entry_depths >>

\* Mutant of SkipCounters: the counter index ignored.
SkipCountersNone(s, index, n) == [st |-> "ok", index |-> index]

\* The search of GetTableValue for the counter: [st, index].
RECURSIVE SkipCounters(_, _, _)
SkipCounters(s, index, n) ==
    IF n = 0 THEN [st |-> "ok", index |-> index]
    ELSE IF ~InStack(s, index - 1) THEN [st |-> "undefined", index |-> index]
    ELSE IF GetStackValue(s, index - 1).type # StackValueType_Counter
         THEN [st |-> "assert", index |-> index]
    ELSE SkipCounters(s, index - 1 - GetStackValue(s, index - 1).total, n - 1)

\* VirtualMachine::GetTableValue
GetTableValue ==
    /\ status = "running"
    /\ \E ins \in Dispatch(OpCode_GetTableValue) :
         LET r == SkipCounters(stack_, -1, ins.counter)
             index == r.index
         IN
         IF r.st # "ok" THEN Halt(r.st, OpCode_GetTableValue)
         ELSE IF ~InStack(stack_, index - 1) THEN Halt("undefined", OpCode_GetTableValue)
         ELSE IF GetStackValue(stack_, index - 1).type # StackValueType_Counter
              THEN Halt("assert", OpCode_GetTableValue)
         ELSE IF ~InStack(stack_, index - 2) THEN Halt("undefined", OpCode_GetTableValue)
         ELSE
           \* -1: key, index - 1: counter, index - 2: table
           LET table == ParamValue(GetStackValue(stack_, index - 2))
               key == ParamValue(Top(stack_))
           IN
           IF ~IsPointer(table) THEN Halt("undefined", OpCode_GetTableValue)
           ELSE IF table.type # TYPE_TABLE THEN Halt("throw", OpCode_GetTableValue)
           ELSE IF ~IsPointer(key) THEN Halt("undefined", OpCode_GetTableValue)
           ELSE /\ stack_' = Pop([stack_ EXCEPT ![Pos(stack_, index - 2)].value =
                                      GetValue(tables[table.id], key)], 1)
                /\ Advance(OpCode_GetTableValue)
                /\ UNCHANGED << nest_tables_, call_stack_, tables, closures, shape, entry_depths >>

\* Whether the n slots on top of s are value slots.
ValuesOnTop(s, n) ==
    /\ Len(s) >= n
    /\ \A i \in 1..n : s[Len(s) + 1 - i].type = StackValueType_Value

\* VirtualMachine::DoPush
DoPush ==
    /\ status = "running"
    /\ \E ins \in Dispatch(OpCode_Push) :
         /\ stack_' = IF ins.type \in {InstructionParamType_Name, InstructionParamType_Value}
                      THEN Push(stack_, ins.value)
                      ELSE IF ins.type = InstructionParamType_Counter
                      THEN PushCounter(stack_, ins.counter, 0)
                      ELSE stack_
         /\ shape' = IF ins.type = InstructionParamType_Counter
                     THEN [shape EXCEPT !.push = @ /\ ValuesOnTop(stack_, ins.counter)]
                     ELSE shape
         /\ Advance(OpCode_Push)
         /\ UNCHANGED << nest_tables_, call_stack_, tables, closures, entry_depths >>

\* The loop of GetUpvalueKeyOwnerTable: callee_tables is tested and never
\* decremented, so the scan runs from nest_tables_[i] down to the bottom of the
\* vector. The table that has the key, 0 when none has it, -1 at a null table.
RECURSIVE ScanAllTables(_, _, _)
ScanAllTables(tbls, key, i) ==
    IF i < 1 THEN 0
    ELSE IF nest_tables_[i] = 0 THEN -1
    ELSE IF HaveKey(tbls[nest_tables_[i]], key) THEN nest_tables_[i]
    ELSE ScanAllTables(tbls, key, i - 1)

\* VirtualMachine::GetUpvalueKeyOwnerTable over the heap tbls:
\* [st, table, tables], the owner and the heap after the call.
GetUpvalueKeyOwnerTable(tbls, key) ==
    IF Len(call_stack_) = 0 THEN [st |-> "undefined", table |-> 0, tables |-> tbls]
    ELSE
      LET callee_tables == call_stack_[Len(call_stack_)].callee_tables
          t == IF callee_tables # 0 THEN ScanAllTables(tbls, key, Len(nest_tables_)) ELSE 0
          callee == call_stack_[Len(call_stack_)].callee
      IN
      IF t = -1 THEN [st |-> "undefined", table |-> 0, tables |-> tbls]
      ELSE IF t # 0 THEN [st |-> "ok", table |-> t, tables |-> tbls]
      ELSE IF callee # Null
      THEN IF callee.type # TYPE_FUNCTION
           THEN [st |-> "undefined", table |-> 0, tables |-> tbls]  \* static_cast<Closure *>
           ELSE
             LET u == closures[callee.id].upvalue_table IN
             \* assert(t && t->HaveKey(key))
             IF u # 0 /\ HaveKey(tbls[u], key)
             THEN [st |-> "ok", table |-> u, tables |-> tbls]
             ELSE [st |-> "assert", table |-> 0, tables |-> tbls]
      \* We insert the key to the lastest table.
      ELSE IF callee_tables # 1 THEN [st |-> "assert", table |-> 0, tables |-> tbls]
      ELSE IF Len(nest_tables_) = 0 \/ nest_tables_[Len(nest_tables_)] = 0
           THEN [st |-> "undefined", table |-> 0, tables |-> tbls]
      ELSE LET b == nest_tables_[Len(nest_tables_)] IN
           [st |-> "ok", table |-> b,
            tables |-> [tbls EXCEPT ![b] = TableAssign(@, key, Nil)]]

\* Mutant of CapturedValue: the owner table captured, not the value it holds.
CapturedReference(tbls, t, key) == TableV(t)

\* t->GetTableValue(it->first): the value copied into the upvalue table.
CapturedValue(tbls, t, key) == GetValue(tbls[t], key)

\* The while loop of GenerateClosure over the upvalue names left:
\* [st, tables], the heap after the copies.
RECURSIVE CopyUpvalues(_, _, _)
CopyUpvalues(names, tbls, upvalue_table) ==
    IF names = {} THEN [st |-> "ok", tables |-> tbls]
    ELSE
      LET key == CHOOSE k \in names : TRUE
          r == GetUpvalueKeyOwnerTable(tbls, key)
      IN
      IF r.st # "ok" THEN [st |-> r.st, tables |-> tbls]
      ELSE CopyUpvalues(names \ {key},
                        [r.tables EXCEPT ![upvalue_table] =
                            TableAssign(@, key, CapturedValue(r.tables, r.table, key))],
                        upvalue_table)

\* VirtualMachine::GenerateClosure
GenerateClosure ==
    /\ status = "running"
    /\ \E ins \in Dispatch(OpCode_GenerateClosure) :
         IF ins.value.type # TYPE_FUNCTION THEN Halt("assert", OpCode_GenerateClosure)
         ELSE
           LET func == ins.value.name
               \* data_pool_->GetClosure(func): an upvalue table iff func declares upvalues
               has == UpvalueSet(func) # {}
               heap == IF has THEN Append(tables, EmptyTable) ELSE tables
               upvalue_table == IF has THEN Len(heap) ELSE 0
               cl == Len(closures) + 1
               r == IF has THEN CopyUpvalues(UpvalueSet(func), heap, upvalue_table)
                    ELSE [st |-> "ok", tables |-> heap]
           IN
           IF r.st # "ok" THEN Halt(r.st, OpCode_GenerateClosure)
           ELSE /\ closures' = Append(closures, [func |-> func, upvalue_table |-> upvalue_table])
                /\ stack_' = PushCounter(Push(stack_, ClosureV(cl)), 1, 0)
                /\ tables' = r.tables
                /\ Advance(OpCode_GenerateClosure)
                /\ UNCHANGED << nest_tables_, call_stack_, shape, entry_depths >>

\* nest_tables_.resize(n): cut to n entries, or grown with null pointers.
Resize(v, n) == [i \in 1..n |-> IF i <= Len(v) THEN v[i] ELSE 0]

\* Mutant of TrimmedSize: one scope table removed whatever the record counts.
TrimmedSizeOne(call_info) == Len(nest_tables_) - 1

\* Mutant of TrimmedSize: the scope tables of the callee left on nest_tables_.
TrimmedSizeKeep(call_info) == Len(nest_tables_)

\* nest_tables_.size() - call_info.callee_tables, in size_t arithmetic:
\* a callee_tables below 0 stands for 2^64 + callee_tables.
TrimmedSize(call_info) == Len(nest_tables_) - call_info.callee_tables

\* Mutant of ResumeAt: the caller resumed at the Call itself.
ResumeAtCall(call_info) == call_info.caller_offset

\* ins_current_ = call_info.caller_offset, then ++ins_current_
ResumeAt(call_info) == call_info.caller_offset + 1

\* VirtualMachine::Return
Return ==
    /\ status = "running"
    /\ Dispatch(OpCode_Ret) # {}
    /\ IF Len(call_stack_) = 0 THEN Halt("undefined", OpCode_Ret)
       ELSE
         LET call_info == call_stack_[Len(call_stack_)]
             size == TrimmedSize(call_info)
         IN
         IF size < 0 THEN Halt("throw", OpCode_Ret)   \* resize past max_size: length_error
         ELSE /\ ins_base_' = call_info.caller_base
              /\ ins_count_' = call_info.caller_total
              /\ ins_current_' = ResumeAt(call_info)
              /\ status' = LoopStatus(ResumeAt(call_info), call_info.caller_total)
              /\ nest_tables_' = Resize(nest_tables_, size)
              /\ call_stack_' = SubSeq(call_stack_, 1, Len(call_stack_) - 1)
              /\ entry_depths' = Left
              /\ last_op' = OpCode_Ret
              /\ UNCHANGED << stack_, tables, closures, shape >>

\* Mutant of FillArgTable: index never advanced.
RECURSIVE FillArgTableSame(_, _, _, _, _, _)
FillArgTableSame(s, arg, index, arg_index, current, total) ==
    IF current >= total THEN arg
    ELSE FillArgTableSame(s, TableAssign(arg, Number(arg_index), ParamValue(GetStackValue(s, index))),
                          index, arg_index + 1, current + 1, total)

\* The while loop of GenerateArgTable: the table arg after the copies.
RECURSIVE FillArgTable(_, _, _, _, _, _)
FillArgTable(s, arg, index, arg_index, current, total) ==
    IF current >= total THEN arg
    ELSE FillArgTable(s, TableAssign(arg, Number(arg_index), ParamValue(GetStackValue(s, index))),
                      index + 1, arg_index + 1, current + 1, total)

\* VirtualMachine::GenerateArgTable
GenerateArgTable ==
    /\ status = "running"
    /\ Dispatch(OpCode_GenerateArgTable) # {}
    /\ IF Len(stack_) = 0 THEN Halt("undefined", OpCode_GenerateArgTable)
       ELSE IF Top(stack_).type # StackValueType_Counter
       THEN \* a value slot read as a counter: the fields are the bits of its pointer,
            \* and current = total overwrites them
            \/ Halt("undefined", OpCode_GenerateArgTable)
            \/ /\ Len(nest_tables_) > 0
               /\ nest_tables_[Len(nest_tables_)] # 0
               /\ stack_' = [stack_ EXCEPT ![Len(stack_)].value = WildPtr]
               /\ tables' = [Append(tables, EmptyTable) EXCEPT ![nest_tables_[Len(nest_tables_)]] =
                                TableAssign(@, NameArg, TableV(Len(tables) + 1))]
               /\ Advance(OpCode_GenerateArgTable)
               /\ UNCHANGED << nest_tables_, call_stack_, closures, shape, entry_depths >>
       ELSE
         LET sv == Top(stack_)
             current == sv.current
             total == sv.total
             index == -1 - (total - current)
             arg == Len(tables) + 1      \* data_pool_->GetTable()
         IN
         IF current < total /\ ~InStack(stack_, index)
         THEN Halt("undefined", OpCode_GenerateArgTable)
         ELSE IF Len(nest_tables_) = 0 \/ nest_tables_[Len(nest_tables_)] = 0
         THEN Halt("undefined", OpCode_GenerateArgTable)
         ELSE /\ stack_' = [stack_ EXCEPT ![Len(stack_)].current = total]
              /\ tables' = [Append(tables, FillArgTable(stack_, EmptyTable, index, 1, current, total))
                              EXCEPT ![nest_tables_[Len(nest_tables_)]] =
                                  TableAssign(@, NameArg, TableV(arg))]
              /\ Advance(OpCode_GenerateArgTable)
              /\ UNCHANGED << nest_tables_, call_stack_, closures, shape, entry_depths >>

\* slot->param.counter.total: the counter's total, or g, the bits of a value
\* slot's pointer read as one.
CounterTotal(slot, g) == IF slot.type = StackValueType_Counter THEN slot.total ELSE g
\* The totals a value slot's bits are read as: none, or more than the stack holds.
GarbageTotals == {0, Len(stack_) + 1}

\* Mutant of ShiftDown: the loop left after its first copy.
ShiftDownFirst(s, index, n) ==
    IF n = 0 THEN s ELSE [s EXCEPT ![Pos(s, index)] = s[Pos(s, index + 1)]]

\* Mutant of ShiftDown: the upper run left where it is.
ShiftDownNot(s, index, n) == s

\* The for loop of MergeCounter: slot index+1 copied to slot index, n times.
RECURSIVE ShiftDown(_, _, _)
ShiftDown(s, index, n) ==
    IF n = 0 THEN s
    ELSE ShiftDown([s EXCEPT ![Pos(s, index)] = s[Pos(s, index + 1)]], index + 1, n - 1)

\* Mutant of MergedTotal: the total of the upper run alone.
MergedTotalUpper(counter1, counter2) == counter1

\* counter1 + counter2
MergedTotal(counter1, counter2) == counter1 + counter2

\* VirtualMachine::MergeCounter
MergeCounter ==
    /\ status = "running"
    /\ Dispatch(OpCode_MergeCounter) # {}
    /\ IF Len(stack_) = 0 THEN Halt("undefined", OpCode_MergeCounter)
       ELSE \E g1 \in GarbageTotals, g2 \in GarbageTotals :
         LET counter1 == CounterTotal(GetStackValue(stack_, -1), g1)
             index == -1 - counter1 - 1
         IN
         IF ~InStack(stack_, index) THEN Halt("undefined", OpCode_MergeCounter)
         ELSE
           LET counter2 == CounterTotal(GetStackValue(stack_, index), g2) IN
           /\ stack_' = PushCounter(Pop(ShiftDown(stack_, index, counter1), 2),
                                    MergedTotal(counter1, counter2), 0)
           /\ shape' = [shape EXCEPT !.merge =
                           /\ @
                           /\ GetStackValue(stack_, -1).type = StackValueType_Counter
                           /\ GetStackValue(stack_, index).type = StackValueType_Counter]
           /\ Advance(OpCode_MergeCounter)
           /\ UNCHANGED << nest_tables_, call_stack_, tables, closures, entry_depths >>

\* Mutant of NewCounter: a counter of no value pushed.
NewCounterEmpty(s) == PushCounter(s, 0, 0)

\* Push new counter
NewCounter(s) == PushCounter(s, 1, 0)

\* The body of ResetCounter on a stack s whose top slot is a counter:
\* [st, stack], the stack after it.
ResetCounterResult(s) ==
    LET counter == Top(s).total
        s1 == Pop(s, 1)        \* Pop older counter
    IN
    IF counter = 1 THEN [st |-> "ok", stack |-> s]     \* counter is ok
    ELSE IF counter > 0 /\ counter - 1 > Len(s1) THEN [st |-> "undefined", stack |-> s]
    ELSE [st |-> "ok",
          stack |-> NewCounter(IF counter = 0 THEN Push(s1, Nil) ELSE Pop(s1, counter - 1))]

\* VirtualMachine::ResetCounter
ResetCounter ==
    /\ status = "running"
    /\ Dispatch(OpCode_ResetCounter) # {}
    /\ IF Len(stack_) = 0 THEN Halt("undefined", OpCode_ResetCounter)
       ELSE IF Top(stack_).type # StackValueType_Counter THEN Halt("assert", OpCode_ResetCounter)
       ELSE IF ResetCounterResult(stack_).st # "ok" THEN Halt("undefined", OpCode_ResetCounter)
       ELSE /\ stack_' = ResetCounterResult(stack_).stack
            /\ Advance(OpCode_ResetCounter)
            /\ UNCHANGED << nest_tables_, call_stack_, tables, closures, shape, entry_depths >>

\* The for loop of DuplicateCounter: the slot at index (from the bottom, 0 the
\* first) pushed, total times.
RECURSIVE CopyElements(_, _, _)
CopyElements(s, index, n) ==
    IF n = 0 THEN s ELSE CopyElements(Append(s, s[index + 1]), index + 1, n - 1)

\* VirtualMachine::DuplicateCounter
DuplicateCounter ==
    /\ status = "running"
    /\ Dispatch(OpCode_DuplicateCounter) # {}
    /\ IF Len(stack_) = 0 THEN Halt("undefined", OpCode_DuplicateCounter)
       ELSE IF Top(stack_).type # StackValueType_Counter
            THEN Halt("assert", OpCode_DuplicateCounter)
       ELSE
         LET total == Top(stack_).total
             stack_size == Len(stack_)
             index == stack_size - total - 1
         IN
         IF total > 0 /\ index < 0 THEN Halt("undefined", OpCode_DuplicateCounter)
         ELSE /\ stack_' = PushCounter(CopyElements(stack_, index, total), total, 0)
              /\ Advance(OpCode_DuplicateCounter)
              /\ UNCHANGED << nest_tables_, call_stack_, tables, closures, shape, entry_depths >>

\* NativeFunction::Call of a native that returns r results: the results and
\* their counter pushed.
RECURSIVE NativeCall(_, _)
NativeCall(s, r) ==
    IF r = 0 THEN s ELSE Push(NativeCall(s, r - 1), Number(r))

\* The history as Call pushes its record: whether a record was there.
CallShape == [shape EXCEPT !.call = @ /\ Len(call_stack_) > 0]

\* Mutant of IsNativeFunction: the else if taken as an else.
IsNativeFunctionElse(callee) == TRUE

\* type == TYPE_NATIVE_FUNCTION
IsNativeFunction(callee) == callee.type = TYPE_NATIVE_FUNCTION

\* VirtualMachine::Call
Call ==
    /\ status = "running"
    /\ Dispatch(OpCode_Call) # {}
    /\ IF Len(stack_) = 0 THEN Halt("undefined", OpCode_Call)
       ELSE IF Top(stack_).type # StackValueType_Counter THEN Halt("assert", OpCode_Call)
       ELSE
         LET index == -1 - Top(stack_).total - 1 IN
         IF ~InStack(stack_, index) THEN Halt("undefined", OpCode_Call)
         ELSE IF GetStackValue(stack_, index).type # StackValueType_Counter
              THEN Halt("assert", OpCode_Call)     \* caller counter
         ELSE IF GetStackValue(stack_, index).total # 1
              THEN Halt("assert", OpCode_Call)     \* caller counter must 1
         ELSE IF ~InStack(stack_, index - 1) THEN Halt("undefined", OpCode_Call)
         ELSE
           LET callee == ParamValue(GetStackValue(stack_, index - 1))
               info == CallStackInfo(ins_base_, ins_count_, ins_current_, callee)
           IN
           IF ~IsPointer(callee) THEN Halt("undefined", OpCode_Call)   \* callee->Type()
           ELSE IF callee.type = TYPE_FUNCTION
           THEN IF callee.id = 0 THEN Halt("undefined", OpCode_Call)   \* a Function, no Closure
                ELSE
                  LET body == Prog(closures[callee.id].func) IN
                  /\ call_stack_' = Append(call_stack_, info)
                  /\ ins_base_' = body
                  /\ ins_count_' = GetInstructionCount(body)
                  /\ ins_current_' = 0      \* -1, then ++ins_current_
                  /\ status' = LoopStatus(0, GetInstructionCount(body))
                  /\ entry_depths' = Entered
                  /\ shape' = CallShape
                  /\ last_op' = OpCode_Call
                  /\ UNCHANGED << stack_, nest_tables_, tables, closures >>
           ELSE IF IsNativeFunction(callee)
           THEN /\ call_stack_' = Append(call_stack_, info)
                /\ stack_' = PushCounter(NativeCall(stack_, callee.id), callee.id, 0)
                /\ ins_base_' = native_func_ret_
                /\ ins_count_' = GetInstructionCount(native_func_ret_)
                /\ ins_current_' = 0
                /\ status' = LoopStatus(0, GetInstructionCount(native_func_ret_))
                /\ entry_depths' = Entered
                /\ shape' = CallShape
                /\ last_op' = OpCode_Call
                /\ UNCHANGED << nest_tables_, tables, closures >>
           ELSE \* throw RuntimeError("attempt to call " + callee->Name())
                /\ call_stack_' = Append(call_stack_, info)
                /\ status' = "throw"
                /\ entry_depths' = Entered
                /\ shape' = CallShape
                /\ last_op' = OpCode_Call
                /\ UNCHANGED << stack_, nest_tables_, ins_base_, ins_count_, ins_current_,
                                tables, closures >>

\* VirtualMachine::AddLocalTable
AddLocalTable ==
    /\ status = "running"
    /\ Dispatch(OpCode_AddLocalTable) # {}
    /\ IF Len(call_stack_) = 0 THEN Halt("undefined", OpCode_AddLocalTable)
       ELSE /\ tables' = Append(tables, EmptyTable)     \* data_pool_->GetTable()
            /\ nest_tables_' = Append(nest_tables_, Len(tables) + 1)
            /\ call_stack_' = [call_stack_ EXCEPT ![Len(call_stack_)].callee_tables = @ + 1]
            /\ Advance(OpCode_AddLocalTable)
            /\ UNCHANGED << stack_, closures, shape, entry_depths >>

\* VirtualMachine::DelLocalTable
DelLocalTable ==
    /\ status = "running"
    /\ Dispatch(OpCode_DelLocalTable) # {}
    /\ IF Len(nest_tables_) = 0 \/ Len(call_stack_) = 0
       THEN Halt("undefined", OpCode_DelLocalTable)
       ELSE /\ nest_tables_' = SubSeq(nest_tables_, 1, Len(nest_tables_) - 1)
            \* size_t: below 0 the value stands for 2^64 + callee_tables
            /\ call_stack_' = [call_stack_ EXCEPT ![Len(call_stack_)].callee_tables = @ - 1]
            /\ shape' = [shape EXCEPT !.scope = @ /\ Top(call_stack_).callee_tables >= 1]
            /\ Advance(OpCode_DelLocalTable)
            /\ UNCHANGED << stack_, tables, closures, entry_depths >>

\* The record AddGlobalTable pushes: CallStackInfo(0, 0, 0, 0).
NullBase == Prog("")

\* VirtualMachine::AddGlobalTable
AddGlobalTable ==
    /\ status = "running"
    /\ Dispatch(OpCode_AddGlobalTable) # {}
    /\ nest_tables_' = Append(nest_tables_, GlobalTable)
    /\ call_stack_' = Append(call_stack_,
                             [CallStackInfo(NullBase, 0, 0, Null) EXCEPT !.callee_tables = 1])
    /\ entry_depths' = EnteredFrom(NullBase, 0)
    /\ shape' = [shape EXCEPT !.global = @ /\ Len(call_stack_) = 0]
    /\ Advance(OpCode_AddGlobalTable)
    /\ UNCHANGED << stack_, tables, closures >>

\* VirtualMachine::DelGlobalTable
DelGlobalTable ==
    /\ status = "running"
    /\ Dispatch(OpCode_DelGlobalTable) # {}
    /\ IF Len(nest_tables_) = 0 \/ Len(call_stack_) = 0
       THEN Halt("undefined", OpCode_DelGlobalTable)
       ELSE /\ nest_tables_' = SubSeq(nest_tables_, 1, Len(nest_tables_) - 1)
            /\ call_stack_' = SubSeq(call_stack_, 1, Len(call_stack_) - 1)
            /\ entry_depths' = Left
            /\ shape' = [shape EXCEPT !.scope = /\ @
                                                /\ Top(call_stack_).callee = Null
                                                /\ Top(call_stack_).callee_tables = 1]
            /\ Advance(OpCode_DelGlobalTable)
            /\ UNCHANGED << stack_, tables, closures >>

\* VirtualMachine::Run: the switch of the dispatch loop.
Next ==
    \/ Assign
    \/ CleanStack
    \/ GetLocalTable
    \/ GetTable
    \/ GetTableValue
    \/ DoPush
    \/ GenerateClosure
    \/ Return
    \/ GenerateArgTable
    \/ MergeCounter
    \/ ResetCounter
    \/ DuplicateCounter
    \/ Call
    \/ AddLocalTable
    \/ DelLocalTable
    \/ AddGlobalTable
    \/ DelGlobalTable

Spec == Init /\ [][Next]_vars

\* The loop of Run keeps dispatching while ins_current_ < ins_count_: a handler
\* that can be dispatched is.
FairSpec == Spec /\ WF_vars(Next)

\* ============================================================ claims
\* The run goes on: the handler dispatched last neither aborted, threw nor left
\* defined behaviour.
Going == status \in {"running", "returned"}
\* This step is the handler of op, run to its end.
Succeeded(op) == status = "running" /\ last_op' = op /\ status' \in {"running", "returned"}

IsCounter(slot) == slot.type = StackValueType_Counter
IsValue(slot) == slot.type = StackValueType_Value

\* C1: a successful Assign (key on top, table and its counter beneath, the RHS
\* counter beneath them) leaves the stack three slots shorter with the RHS
\* counter on top, its total unchanged; a successful CleanStack on a top
\* counter of total N leaves the stack N+1 slots shorter.
C1_StackBalance ==
    [][ /\ Succeeded(OpCode_Assign) =>
             /\ Len(stack_') = Len(stack_) - 3
             /\ IsCounter(stack_[Len(stack_) - 3])
             /\ IsCounter(Top(stack_'))
             /\ Top(stack_').total = stack_[Len(stack_) - 3].total
             /\ SubSeq(stack_', 1, Len(stack_) - 4) = SubSeq(stack_, 1, Len(stack_) - 4)
        /\ Succeeded(OpCode_CleanStack) =>
             /\ Len(stack_') = Len(stack_) - (Top(stack_).total + 1)
             /\ stack_' = SubSeq(stack_, 1, Len(stack_'))
      ]_vars

\* An Assign consumed the second of two RHS values, and the CleanStack after it
\* emptied the stack.
C1_Witness ==
    /\ ins_base_ = ProgNK("MultiAssign", 2, 2)
    /\ status = "returned"
    /\ last_op = OpCode_CleanStack
    /\ stack_ = << >>

Min(a, b) == IF a < b THEN a ELSE b

\* In the bootstrap a1, .., aK = 10, .., 10N: the number of Assign instructions
\* dispatched when the instruction at index c is the next.
AssignsDone(n, k, c) == IF c < n + 2 THEN 0 ELSE Min(k, (c - (n + 2)) \div 3)

\* C2: K Assign instructions on one RHS counter {0, N} over v1..vN write v_i
\* for i <= min(K, N), left to right, and Nil for i > N; the counter's current
\* ends at min(K, N) and never exceeds total; the CleanStack after them removes
\* the counter and all N values.
C2_TruncatePad ==
    ins_base_.name = "MultiAssign" =>
      LET n == ins_base_.n
          k == ins_base_.k
          done == AssignsDone(n, k, ins_current_)
          global == tables[GlobalTable]
      IN
      /\ Going
      /\ DOMAIN global = {KeyName(i) : i \in 1..done}
      /\ \A i \in 1..done : global[KeyName(i)] = IF i <= n THEN Number(10 * i) ELSE Nil
      /\ \A i \in 1..Len(stack_) : IsCounter(stack_[i]) => stack_[i].current <= stack_[i].total
      /\ (status = "running" /\ ins_current_ >= n + 2) =>
            /\ Len(stack_) >= n + 1
            /\ stack_[n + 1] = CounterSlot(n, Min(done, n))
            /\ \A i \in 1..n : stack_[i] = ValueSlot(Number(10 * i))
      /\ status = "returned" => stack_ = << >>

\* Three keys were assigned from two values: the third got Nil.
C2_Witness ==
    /\ ins_base_ = ProgNK("MultiAssign", 2, 3)
    /\ status = "returned"
    /\ tables[GlobalTable][KeyName(3)] = Nil
    /\ tables[GlobalTable][KeyName(2)] = Number(20)

\* C3: a Ret that ends a frame opened by Call leaves nest_tables_ and
\* call_stack_ at the depths they had right before that Call, whatever the
\* callee (script or native, nested, recursive) added to or deleted from
\* nest_tables_.
C3_ScopeCallSymmetry ==
    [][ (Succeeded(OpCode_Ret) /\ Top(call_stack_).callee # Null) =>
            /\ Len(nest_tables_') = Top(entry_depths).nest
            /\ Len(call_stack_') = Top(entry_depths).calls
      ]_vars

\* The calls of Nested are over: FnOuter opened a scope and called FnRead.
C3_Witness ==
    /\ ins_base_ = Prog("Nested")
    /\ last_op = OpCode_Ret
    /\ status = "returned"
    /\ Len(closures) = 2
    /\ Len(nest_tables_) = 1

\* The upvalue table of closure c (0: none).
UpvalueTableOf(c) == closures[c].upvalue_table

\* C4: an Assign to a scope table after GenerateClosure leaves every closure's
\* upvalue table as it is, and in S4 the closure created while n = 1 holds and
\* reads n = 1 although the global n is 2 when it is called.
C4_CaptureByValue ==
    /\ [][ (Succeeded(OpCode_Assign) /\
            \E i \in 1..Len(nest_tables_) : stack_[Len(stack_) - 2].value = TablePtr(nest_tables_[i]))
           => \A c \in 1..Len(closures) :
                 UpvalueTableOf(c) # 0 => tables'[UpvalueTableOf(c)] = tables[UpvalueTableOf(c)]
         ]_vars
    /\ [](ins_base_ = Prog("S4") =>
            /\ Going
            /\ Len(closures) >= 1 => tables[UpvalueTableOf(1)] = (NameN :> Number(1))
            /\ status = "returned" =>
                  /\ tables[GlobalTable][NameN] = Number(2)
                  /\ SubSeq(stack_, Len(stack_) - 1, Len(stack_))
                       = << ValueSlot(Number(1)), CounterSlot(1, 0) >>)

\* S4 is over: the global n is 2 and the closure returned 1.
C4_Witness ==
    /\ ins_base_ = Prog("S4")
    /\ status = "returned"
    /\ last_op = OpCode_Ret
    /\ tables[GlobalTable][NameN] = Number(2)
    /\ stack_[Len(stack_) - 1] = ValueSlot(Number(1))

\* The counter on top of s, if one is, has its total value slots beneath it.
CounterIntegrity(s) ==
    (Len(s) > 0 /\ IsCounter(Top(s))) =>
        /\ Top(s).total <= Len(s) - 1
        /\ \A i \in 1..Top(s).total : IsValue(s[Len(s) - i])

\* C5 as stated: at every fetch boundary of a stream whose Push Counter{n} are
\* all emitted above n value slots, the top counter has its values beneath it.
C5_AsStated == (Going /\ shape.push) => CounterIntegrity(stack_)

\* C5, amended: ... of a stream whose Push Counter{n} are all emitted above n
\* value slots and whose MergeCounter all find a counter on top and a counter
\* beneath the top run, the top counter has its values beneath it.
C5_CounterIntegrity == (Going /\ shape.push /\ shape.merge) => CounterIntegrity(stack_)

\* MergeCounter merged two runs into one of three values.
C5_Witness ==
    /\ last_op = OpCode_MergeCounter
    /\ Going
    /\ shape.push /\ shape.merge
    /\ IsCounter(Top(stack_)) /\ Top(stack_).total = 3

\* The scope table S1 assigns to: the one AddLocalTable pushed.
S1Done ==
    /\ status = "returned"
    /\ stack_ = << >>
    /\ Len(nest_tables_) = 2
    /\ tables[nest_tables_[2]] = (NameX :> Number(1))

\* C6 as stated: Push Number(1); Push Counter{1}; GetLocalTable; Push Name x;
\* Push Counter{1}; Assign; CleanStack ends with x -> Number(1) in the local
\* scope table and the operand stack empty.
C6_AsStated == (ins_base_ = Prog("S1") /\ status # "running") => S1Done

\* C6, amended: Push Number(1); Push Counter{1}; GetLocalTable; Push Name x;
\* Assign; CleanStack (the key the top slot, no counter above it) ends with
\* x -> Number(1) in the local scope table and the operand stack empty.
C6_KeyOnTop == (ins_base_ = Prog("S1Key")) => (Going /\ (status # "running" => S1Done))

\* S1 with the key on top has run to its end.
C6_Witness ==
    /\ ins_base_ = Prog("S1Key")
    /\ last_op = OpCode_CleanStack
    /\ status = "returned"
    /\ tables[2] = (NameX :> Number(1))

\* The names the programs use as keys.
Names == {NameX, NameN, NameF, NameArg}

\* The positions in nest_tables_ of the scope tables of the current frame.
FrameTables ==
    {i \in 1..Len(nest_tables_) : i > Len(nest_tables_) - Top(call_stack_).callee_tables}

\* There is a current frame and its callee_tables tables are on nest_tables_.
FrameIntact ==
    /\ Len(call_stack_) > 0
    /\ Top(call_stack_).callee_tables \in 0..Len(nest_tables_)
    /\ \A i \in FrameTables : nest_tables_[i] # 0

\* The positions of the frame's scope tables that have key k.
FrameHaving(k) == {i \in FrameTables : HaveKey(tables[nest_tables_[i]], k)}

MaxOf(S) == CHOOSE x \in S : \A y \in S : y <= x

\* The current callee is a closure.
InClosureFrame == Top(call_stack_).callee.type = TYPE_FUNCTION

\* C7: in every frame and for every name k GetTable does not fail: it pushes one
\* table value and counter {0,1}, the current closure's upvalue table when k is
\* in none of the frame's scope tables.
C7_GetTableNeverFails ==
    /\ (last_op = OpCode_GetTable /\ FrameIntact) => Going
    /\ (status = "running" /\ FrameIntact) =>
          \A k \in Names :
             /\ GetTableResult(k).st = "ok"
             /\ GetTableResult(k).value.type = TYPE_TABLE
             /\ FrameHaving(k) = {} =>
                   /\ InClosureFrame
                   /\ GetTableResult(k).value = GetUpvalueTable(Top(call_stack_).callee)

\* C8: GetTable(k) pushes the innermost of the current frame's callee_tables
\* scope tables that has k; when none of them has k it pushes no scope table of
\* a caller's frame, whether or not one has k.
C8_ScopeVisibility ==
    /\ [](FrameIntact =>
            \A k \in Names :
               IF FrameHaving(k) # {}
               THEN GetTableResult(k) =
                       [st |-> "ok", value |-> TableV(nest_tables_[MaxOf(FrameHaving(k))])]
               ELSE GetTableResult(k).st = "ok" =>
                       \A i \in (1..Len(nest_tables_)) \ FrameTables :
                          GetTableResult(k).value # TableV(nest_tables_[i]))
    /\ [][ (Succeeded(OpCode_GetTable) /\ FrameIntact) =>
              \E k \in Names :
                 stack_' = stack_ \o << ValueSlot(GetTableResult(k).value), CounterSlot(1, 0) >>
         ]_vars

\* FnOuter of Nested has looked n up: its one scope table lacks n, the global
\* table of the caller has it, and the table pushed is FnOuter's upvalue table.
C8_Witness ==
    /\ ins_base_ = Prog("FnOuter")
    /\ last_op = OpCode_GetTable
    /\ Len(call_stack_) = 2
    /\ Top(call_stack_).callee_tables = 1
    /\ FrameHaving(NameN) = {}
    /\ HaveKey(tables[GlobalTable], NameN)
    /\ stack_[Len(stack_) - 1] = ValueSlot(GetUpvalueTable(Top(call_stack_).callee))
    /\ Top(stack_) = CounterSlot(1, 0)

\* The upvalue table of the current closure has key k.
UpvalueHaving(k) ==
    /\ UpvalueTableOf(Top(call_stack_).callee.id) # 0
    /\ HaveKey(tables[UpvalueTableOf(Top(call_stack_).callee.id)], k)

\* C9: in a closure frame, for a key in none of the frame's scope tables and
\* in the closure's upvalue table, GetUpvalueKeyOwnerTable returns the closure's
\* upvalue table, not a scope table of a caller's frame.
C9_OwnerWithinFrame ==
    (status = "running" /\ FrameIntact /\ InClosureFrame) =>
        \A k \in Names :
           (FrameHaving(k) = {} /\ UpvalueHaving(k)) =>
               GetUpvalueKeyOwnerTable(tables, k)
                  = [st |-> "ok", table |-> UpvalueTableOf(Top(call_stack_).callee.id),
                     tables |-> tables]

\* C10: a GenerateClosure that runs in a frame ends without a failed assertion
\* and the new closure's upvalue table has every upvalue name of the function;
\* at the global frame a name bound in no visible scope is bound to Nil in the
\* outermost visible scope and captured as Nil.
C10_EveryUpvalueHasOwner ==
    [][ (status = "running" /\ last_op' = OpCode_GenerateClosure /\ FrameIntact
         /\ Top(call_stack_).callee_tables >= 1) =>
            /\ status' \in {"running", "returned"}
            /\ Len(closures') = Len(closures) + 1
            /\ \A n \in UpvalueSet(closures'[Len(closures')].func) :
                  /\ HaveKey(tables'[closures'[Len(closures')].upvalue_table], n)
                  /\ (Top(call_stack_).callee = Null /\ FrameHaving(n) = {}) =>
                        /\ tables'[closures'[Len(closures')].upvalue_table][n] = Nil
                        /\ HaveKey(tables'[nest_tables_[Len(nest_tables_) + 1
                                              - Top(call_stack_).callee_tables]], n)
      ]_vars

\* The top counter of s has its total value slots beneath it and
\* 0 <= current <= total.
RunOnTop(s) ==
    /\ Len(s) > 0 /\ IsCounter(Top(s))
    /\ Top(s).current \in 0..Top(s).total
    /\ CounterIntegrity(s)

\* C11: ResetCounter on a top counter {c, N} over v1..vN leaves counter {0, 1}
\* on top of v1 (Nil when N = 0) and the slots below the run unchanged.
C11_ResetCounterPost ==
    [][ (Succeeded(OpCode_ResetCounter) /\ RunOnTop(stack_)) =>
           stack_' = SubSeq(stack_, 1, Len(stack_) - 1 - Top(stack_).total)
                     \o << IF Top(stack_).total = 0 THEN ValueSlot(Nil)
                           ELSE stack_[Len(stack_) - Top(stack_).total],
                           CounterSlot(1, 0) >>
      ]_vars

\* C12: a ResetCounter that ran leaves a stack that ResetCounter leaves as it
\* is; in ResetTwice the second ResetCounter ends with the stack of the first.
C12_ResetCounterIdempotent ==
    /\ [][ Succeeded(OpCode_ResetCounter) =>
              ResetCounterResult(stack_') = [st |-> "ok", stack |-> stack_'] ]_vars
    /\ [](ins_base_.name = "ResetTwice" =>
            /\ Going
            /\ ins_current_ > ins_base_.n + 1 =>
                  stack_ = << IF ins_base_.n = 0 THEN ValueSlot(Nil) ELSE ValueSlot(Number(10)),
                              CounterSlot(1, 0) >>)

\* Three values reset to one, and reset again.
C12_Witness ==
    /\ ins_base_ = ProgNK("ResetTwice", 3, 0)
    /\ status = "returned"
    /\ last_op = OpCode_ResetCounter
    /\ stack_ = << ValueSlot(Number(10)), CounterSlot(1, 0) >>

\* The value slots 10(from+1), .., 10(from+n).
RECURSIVE RunSlots(_, _)
RunSlots(from, n) ==
    IF n = 0 THEN << >> ELSE Append(RunSlots(from, n - 1), ValueSlot(Number(10 * (from + n))))

\* C13: runs A, B, C of a, b, c values merged as (A, B) then C and merged as
\* (B, C) then A end with the same top counter, of total a + b + c, over the
\* values of A, B, C in order.
C13_MergeAssociative ==
    ins_base_.name \in {"MergeLeft", "MergeRight"} =>
        /\ Going
        /\ status = "returned" =>
              stack_ = RunSlots(0, ins_base_.n + RunB(ins_base_) + RunC(ins_base_))
                       \o << CounterSlot(ins_base_.n + RunB(ins_base_) + RunC(ins_base_), 0) >>

\* B and C merged first, then A: runs of 1, 2 and 2 values.
C13_Witness ==
    /\ ins_base_ = Prog3("MergeRight", 1, 2, 2)
    /\ status = "returned"
    /\ last_op = OpCode_MergeCounter
    /\ Top(stack_).total = 5

\* s ends [x1..xm, counter{_, m}, y1..yn, counter{_, n}].
TwoRunsOnTop(s) ==
    /\ CounterIntegrity(s)
    /\ Len(s) > 0 /\ IsCounter(Top(s))
    /\ Len(s) >= Top(s).total + 2
    /\ CounterIntegrity(SubSeq(s, 1, Len(s) - 1 - Top(s).total))
    /\ IsCounter(s[Len(s) - 1 - Top(s).total])

\* C16: MergeCounter on [.., x1..xm, counter{_, m}, y1..yn, counter{_, n}]
\* leaves [.., x1..xm, y1..yn, counter{0, m+n}]: the lower counter removed, the
\* upper run moved down one slot, everything else as it was.
C16_MergeLayout ==
    [][ (Succeeded(OpCode_MergeCounter) /\ TwoRunsOnTop(stack_)) =>
           LET n == Top(stack_).total
               lower == Len(stack_) - 1 - n        \* position of the lower counter
               m == stack_[lower].total
           IN stack_' = SubSeq(stack_, 1, lower - 1)
                        \o SubSeq(stack_, lower + 1, Len(stack_) - 1)
                        \o << CounterSlot(m + n, 0) >>
      ]_vars

\* Runs of 2 and 2 values merged into one of 4.
C16_Witness ==
    /\ ins_base_.name = "MergeLeft"
    /\ last_op = OpCode_MergeCounter
    /\ stack_ = RunSlots(0, 4) \o << CounterSlot(4, 0) >>

\* The callee a Call finds: the value beneath the caller counter, which is
\* beneath the arguments and their counter.
CalleeOf(s) == s[Len(s) - Top(s).total - 2].value

\* C14: a Call of a closure continues at instruction 0 of the closure's body
\* and a Call of a native at the built-in single Ret; the Ret that ends the
\* call continues at the instruction after the Call in the caller's own
\* instructions, or ends Run when there is none, and pops the newest record.
C14_ResumptionOrder ==
    [][ /\ Succeeded(OpCode_Call) =>
              /\ ins_current_' = 0
              /\ ins_base_' = IF CalleeOf(stack_).type = TYPE_NATIVE_FUNCTION
                              THEN native_func_ret_
                              ELSE Prog(closures[CalleeOf(stack_).id].func)
              /\ ins_count_' = Len(GetInstructions(ins_base_'))
              /\ GetInstructions(native_func_ret_) = << Ins(OpCode_Ret) >>
              /\ SubSeq(call_stack_', 1, Len(call_stack_)) = call_stack_
              /\ Len(call_stack_') = Len(call_stack_) + 1
        /\ (Succeeded(OpCode_Ret) /\ Top(call_stack_).callee # Null) =>
              /\ ins_base_' = Top(entry_depths).base
              /\ ins_current_' = Top(entry_depths).offset + 1
              /\ ins_count_' = GetInstructionCount(ins_base_')
              /\ (status' = "returned") = (ins_current_' = ins_count_')
              /\ call_stack_' = SubSeq(call_stack_, 1, Len(call_stack_) - 1)
      ]_vars

\* S6 is back from the native it called at index 4.
C14_Witness ==
    /\ ins_base_ = Prog("S6")
    /\ last_op = OpCode_Ret
    /\ ins_current_ = 5
    /\ status = "running"
    /\ Len(call_stack_) = 1

\* The slot GetTableValue with counter index ci indexes is a table.
TargetIsTable(s, ci) ==
    /\ SkipCounters(s, -1, ci).st = "ok"
    /\ InStack(s, SkipCounters(s, -1, ci).index - 2)
    /\ IsValue(GetStackValue(s, SkipCounters(s, -1, ci).index - 2))
    /\ GetStackValue(s, SkipCounters(s, -1, ci).index - 2).value.type = TYPE_TABLE

\* C15: GetTableValue goes on only when its target is a table and Call only
\* when its callee is a closure or a native; a raised error is the last step of
\* Run and a GetTableValue that raises leaves the operand stack as it was. In
\* S3 GetTableValue raises on Number(5) and in CallNumber Call raises on it.
C15_TypeErrorsTerminate ==
    /\ [][ /\ status # "throw"
           /\ Succeeded(OpCode_GetTableValue) => \E ci \in 0..1 : TargetIsTable(stack_, ci)
           /\ Succeeded(OpCode_Call) =>
                 CalleeOf(stack_).type \in {TYPE_FUNCTION, TYPE_NATIVE_FUNCTION}
           /\ (status' = "throw" /\ last_op' = OpCode_GetTableValue) =>
                 /\ stack_' = stack_
                 /\ ins_current_' = ins_current_
        ]_vars
    /\ [](ins_base_ = Prog("S3") /\ status # "running" =>
            /\ status = "throw" /\ last_op = OpCode_GetTableValue /\ ins_current_ = 4
            /\ stack_ = << ValueSlot(Number(5)), CounterSlot(1, 0), ValueSlot(String("y")) >>
            /\ tables[GlobalTable] = EmptyTable)
    /\ [](ins_base_ = Prog("CallNumber") /\ status # "running" =>
            status = "throw" /\ last_op = OpCode_Call /\ ins_current_ = 4)

\* S3 has raised at its GetTableValue.
C15_Witness ==
    /\ ins_base_ = Prog("S3")
    /\ status = "throw"
    /\ last_op = OpCode_GetTableValue
    /\ stack_[1] = ValueSlot(Number(5))

\* C17: GenerateArgTable on a top counter {c, N} over v1..vN, in a frame that
\* has a scope table, allocates a table mapping 1..N-c to v(c+1)..vN, binds
\* "arg" to it in the innermost scope table, sets the counter's current to N
\* and changes no other slot and no other table.
C17_ArgTable ==
    [][ (Succeeded(OpCode_GenerateArgTable) /\ RunOnTop(stack_) /\ FrameIntact
         /\ Top(call_stack_).callee_tables >= 1) =>
           LET c == Top(stack_).current
               N == Top(stack_).total
               arg == Len(tables) + 1
               local == nest_tables_[Len(nest_tables_)]
           IN
           /\ Len(tables') = Len(tables) + 1
           /\ DOMAIN tables'[arg] = {Number(i) : i \in 1..(N - c)}
           /\ \A i \in 1..(N - c) :
                 tables'[arg][Number(i)] = stack_[Len(stack_) - N - 1 + c + i].value
           /\ tables'[local] = TableAssign(tables[local], NameArg, TableV(arg))
           /\ \A t \in (1..Len(tables)) \ {local} : tables'[t] = tables[t]
           /\ stack_' = [stack_ EXCEPT ![Len(stack_)] = CounterSlot(N, N)]
      ]_vars

\* S5: FnArgs has packed its three arguments.
C17_Witness ==
    /\ ins_base_ = Prog("FnArgs")
    /\ last_op = OpCode_GenerateArgTable
    /\ Top(stack_) = CounterSlot(3, 3)
    /\ tables[nest_tables_[2]][NameArg] = TableV(Len(tables))
    /\ tables[Len(tables)] = [k \in {Number(1), Number(2), Number(3)} |-> Number(10 * k.id)]

\* The position of the counter found beneath ci complete runs (a counter and
\* its total slots each) that start at position top; 0 when a run is missing.
RECURSIVE BeneathRuns(_, _, _)
BeneathRuns(s, top, ci) ==
    IF ci = 0 THEN top
    ELSE IF top < 1 \/ top > Len(s) THEN 0
    ELSE IF ~IsCounter(s[top]) THEN 0
    ELSE BeneathRuns(s, top - 1 - s[top].total, ci - 1)

\* C18: GetTableValue with counter index ci, the key on top, skips ci runs
\* beneath the key, replaces the table beneath the next counter with
\* table[key] (Nil if absent), pops the key and changes nothing else. In Chain,
\* with ci = 1 and the run 10, 20 beneath the key, x is read from the table.
C18_GetTableValueFrame ==
    /\ [](ins_base_ = Prog("Chain") =>
            /\ Going
            /\ status = "returned" =>
                  stack_ = << ValueSlot(Number(7)), CounterSlot(1, 0) >> \o RunSlots(0, 2)
                           \o << CounterSlot(2, 0) >>)
    /\ [][ Succeeded(OpCode_GetTableValue) =>
           \E ins \in Dispatch(OpCode_GetTableValue) :
              LET pair == BeneathRuns(stack_, Len(stack_) - 1, ins.counter) IN
              /\ pair >= 2
              /\ IsCounter(stack_[pair])
              /\ IsValue(stack_[pair - 1]) /\ stack_[pair - 1].value.type = TYPE_TABLE
              /\ IsValue(Top(stack_))
              /\ Len(stack_') = Len(stack_) - 1
              /\ stack_'[pair - 1] =
                    ValueSlot(GetValue(tables[stack_[pair - 1].value.id], Top(stack_).value))
              /\ \A i \in (1..Len(stack_')) \ {pair - 1} : stack_'[i] = stack_[i]
              /\ tables' = tables
         ]_vars

\* Chain has indexed x beneath the run 10, 20.
C18_Witness ==
    /\ ins_base_ = Prog("Chain")
    /\ status = "returned"
    /\ last_op = OpCode_GetTableValue
    /\ Len(stack_) = 5
    /\ stack_[1] = ValueSlot(tables[GlobalTable][NameX])
    /\ tables[GlobalTable][NameX] = Number(7)

\* The sum of callee_tables over the records of cs.
RECURSIVE SumCalleeTables(_)
SumCalleeTables(cs) ==
    IF cs = << >> THEN 0
    ELSE SumCalleeTables(SubSeq(cs, 1, Len(cs) - 1)) + cs[Len(cs)].callee_tables

\* Every record counts tables that are on nest_tables_ (a callee_tables below 0
\* is a wrapped size_t), the counts add up to the size of nest_tables_, and the
\* bottom record is the one with callee = null.
ScopeAccounting ==
    /\ \A i \in 1..Len(call_stack_) : call_stack_[i].callee_tables \in 0..Len(nest_tables_)
    /\ Len(nest_tables_) = SumCalleeTables(call_stack_)
    /\ Len(call_stack_) > 0 => call_stack_[1].callee = Null

\* C19 as stated: when DelLocalTable ran only on records with callee_tables >= 1
\* and DelGlobalTable only on the AddGlobalTable record with callee_tables = 1,
\* the scope accounting holds at every fetch boundary.
C19_AsStated == (Going /\ shape.scope) => ScopeAccounting

\* C19, amended: ... and Call ran only with a call-stack record present, the
\* scope accounting holds at every fetch boundary.
C19_ScopeAccounting == (Going /\ shape.scope /\ shape.call) => ScopeAccounting

\* Three records, the two scope tables counted by the lower two.
C19_Witness ==
    /\ Going
    /\ shape.scope /\ shape.call
    /\ Len(call_stack_) = 3
    /\ Len(nest_tables_) = 2
    /\ call_stack_[2].callee_tables = 1
    /\ call_stack_[3].callee_tables = 0

\* The bootstrap opens with AddGlobalTable, and its last instruction, a
\* DelGlobalTable, has been dispatched and Run has returned.
Bracketed ==
    /\ ins_base_ \in Bootstraps
    /\ GetInstructions(ins_base_) # << >>
    /\ GetInstructions(ins_base_)[1].op_code = OpCode_AddGlobalTable
    /\ last_op = OpCode_DelGlobalTable
    /\ status = "returned"

AtEntryDepth == Len(call_stack_) = 0 /\ Len(nest_tables_) = 0

\* A handler other than Call and Ret that does not raise leaves the instruction
\* array alone and moves to the next instruction, and Run returns exactly when
\* that is past the end.
InOrder ==
    (/\ status = "running"
     /\ last_op' \notin {OpCode_Call, OpCode_Ret}
     /\ status' \in {"running", "returned"})
    => /\ ins_base_' = ins_base_
       /\ ins_count_' = ins_count_
       /\ ins_current_' = ins_current_ + 1
       /\ (status' = "returned") = (ins_current_' = ins_count_)

\* C20 as stated, its end state: a bootstrap bracketed by AddGlobalTable and
\* DelGlobalTable returns with the call stack and the scope-table stack at
\* their depth on entry.
C20_AsStated == Bracketed => AtEntryDepth

\* C20, amended: handlers other than Call and Ret that do not raise are
\* dispatched in order, one step each, and Run returns when the last is done;
\* every run ends (by returning or by a raise), and a bracketed bootstrap whose
\* scope instructions are balanced (DelLocalTable on a record counting a table,
\* DelGlobalTable on the AddGlobalTable record counting one, AddGlobalTable on
\* an empty call stack, Call on a non-empty one) returns at its entry depths.
C20_Termination ==
    /\ [][InOrder]_vars
    /\ []((Bracketed /\ shape.scope /\ shape.call /\ shape.global) => AtEntryDepth)
    /\ <>(status # "running")

\* The bracketed bootstrap with nested calls has returned at its entry depths.
C20_Witness ==
    /\ ins_base_ = Prog("Recursive")
    /\ Bracketed
    /\ shape.scope /\ shape.call /\ shape.global
    /\ AtEntryDepth

====
